---- MODULE Spec2Model ----
(***************************************************************************)
(* CloneAlignTree (src/src/treealign/clonealign_tree.py): the recursive    *)
(* descent that assigns expression cells to the clades of a phylogenetic   *)
(* tree.  The recursion of assign_cells_to_clade is modelled with an       *)
(* explicit call stack; one action is one visit of a clade up to its       *)
(* return or its next recursive call.                                      *)
(*                                                                         *)
(* Frequencies (none_freq, min_record_freq, min_proceed_freq) are counted  *)
(* in quarters, where the float subtraction 1 - none_freq is exact.        *)
(***************************************************************************)
EXTENDS Integers, Sequences, FiniteSets, TLC

\* ------------------------------------------------------------------ bounds
\* Number of columns (cells) of the expression matrix.
MaxCells == 2
\* Largest number of rows (genes / SNPs) of a constructed input table.
MaxRows == 2
\* Number of traversals in the behaviours that repeat the traversal.
MaxRuns == 2

\* The float 1.0 of "1 - none_freq", in quarters.
One == 4

\* node.name of a clade that was given no name; an absent table.
NoName == "<None>"
NoTable == [rows |-> -1, cols |-> -1]
\* numpy's nan in the clone_assign vector.
NaN == -1

\* ------------------------------------------------------------------- trees
\* A tree is [kids : node -> sequence of nodes, name : node -> string], its
\* root is node 1.  These are the trees handed to the traversals; the names
\* they come with are none of the names add_tree_node_name generates.
RawTreeBalanced ==
    [kids |-> <<(<<2, 3>>), (<<4, 5>>), (<<6, 7>>), <<>>, <<>>, <<>>, <<>>>>,
     name |-> <<NoName, NoName, NoName, "d4", "d5", "d6", "d7">>]

RawTreeLadder ==
    [kids |-> <<(<<2, 3>>), (<<4, 5>>), <<>>, (<<6, 7>>), <<>>, <<>>, <<>>>>,
     name |-> <<NoName, "cladeA", "d3", NoName, "d5", "d6", "d7">>]

RawTreeWide ==
    [kids |-> <<(<<2, 3, 4>>), (<<5, 6>>), <<>>, <<>>, <<>>, <<>>>>,
     name |-> <<NoName, NoName, "d3", "d4", "d5", "d6">>]

RawTrees == {RawTreeBalanced, RawTreeLadder, RawTreeWide}

Nodes(t) == DOMAIN t.kids

\* Clade.is_terminal(): a clade without children.
IsTerminal(t, n) == t.kids[n] = <<>>

RECURSIVE Terminals(_, _)
RECURSIVE TerminalsOfList(_, _)
\* Clade.get_terminals(): the leaves below n in pre-order (n itself if a leaf).
Terminals(t, n) ==
    IF IsTerminal(t, n) THEN <<n>> ELSE TerminalsOfList(t, t.kids[n])

TerminalsOfList(t, s) ==
    IF s = <<>> THEN <<>>
    ELSE Terminals(t, Head(s)) \o TerminalsOfList(t, Tail(s))

CountTerminals(t, n) == Len(Terminals(t, n))

RECURSIVE InsertByCount(_, _, _)
\* c inserted into s (sorted by leaf count) behind the clades of equal count.
InsertByCount(t, s, c) ==
    IF s = <<>> THEN <<c>>
    ELSE IF CountTerminals(t, Head(s)) <= CountTerminals(t, c)
         THEN <<Head(s)>> \o InsertByCount(t, Tail(s), c)
         ELSE <<c>> \o s

RECURSIVE SortByCount(_, _)
\* list.sort(key = count_terminals): ascending and stable.
SortByCount(t, s) ==
    IF s = <<>> THEN <<>>
    ELSE InsertByCount(t, SortByCount(t, SubSeq(s, 1, Len(s) - 1)), s[Len(s)])

\* tree.ladderize(): every clade's children sorted by their number of leaves.
Ladderize(t) ==
    [t EXCEPT !.kids = [n \in Nodes(t) |-> SortByCount(t, t.kids[n])]]

RECURSIVE NameNodes(_, _, _)
\* add_tree_node_name as a depth-first pre-order walk; todo is the list of
\* clades still to be walked, count is self.count.
NameNodes(t, todo, count) ==
    IF todo = <<>> THEN [tree |-> t, count |-> count]
    ELSE LET node == Head(todo)
             rest == Tail(todo)
         IN  IF IsTerminal(t, node) THEN NameNodes(t, rest, count)
             ELSE IF t.name[node] = NoName
                  THEN NameNodes([t EXCEPT !.name[node] = "node_" \o ToString(count)],
                                 t.kids[node] \o rest, count + 1)
                  ELSE NameNodes(t, t.kids[node] \o rest, count)

add_tree_node_name(t, node, count) == NameNodes(t, <<node>>, count)

\* The tree as __init__ leaves it: ladderized, internal nodes named.
ConstructTree(raw) == add_tree_node_name(Ladderize(raw), 1, 0).tree

RECURSIVE Descendants(_, _)
\* n and every clade below n.
Descendants(t, n) ==
    {n} \cup UNION {Descendants(t, t.kids[n][i]) : i \in 1..Len(t.kids[n])}

\* --------------------------------------------------------- small utilities
Range(s) == {s[i] : i \in 1..Len(s)}

RECURSIVE SelectIdx_other(_, _, _)
\* The comparison of line 287 inverted: the cells of the other children.
SelectIdx_other(s, v, i) ==
    IF s = <<>> THEN <<>>
    ELSE (IF Head(v) # i THEN <<Head(s)>> ELSE <<>>)
         \o SelectIdx_other(Tail(s), Tail(v), i)

RECURSIVE SelectIdx(_, _, _)
\* [s[k] for k in range(len(s)) if P(k)], for P(k) == v[k] = i.
SelectIdx(s, v, i) ==
    IF s = <<>> THEN <<>>
    ELSE (IF Head(v) = i THEN <<Head(s)>> ELSE <<>>) \o SelectIdx(Tail(s), Tail(v), i)

\* The first n cell identifiers.
CellList(n) == SubSeq(<<"c1", "c2", "c3", "c4">>, 1, n)

\* ------------------------------------------------------------------- state
VARIABLES
    given,                   \* the tree as it was handed to __init__
    tree,                    \* self.tree
    count,                   \* self.count
    expr_df, snv_df,         \* the column lists of the two cell matrices, or NoDF
    min_cell_count_expr, min_cell_count_cnv, min_gene_diff, min_snp_diff,
    level_cutoff, min_proceed_freq, min_record_freq,
    infer_s_score, infer_b_allele,
    row_choices,             \* row counts <<genes, snps>> the input data can yield
    stubbed,                 \* the collaborators are deterministic stubs
    run_limit,               \* calls of assign_cells_to_tree the behaviour makes
    clone_assign_dict,       \* cell -> clade name
    pruned_clades,           \* set of clade names
    gene_type_score_dict,    \* gene -> list of scores
    allele_assign_prob_dict, \* snp -> list of probabilities
    stack,                   \* call stack of assign_cells_to_clade, top last
    status,                  \* "idle", "running", "done" or "error"
    runs,                    \* calls of assign_cells_to_tree so far
    fresh,                   \* the object has run at most one traversal
    last,                    \* what the latest step did
    visits,                  \* the visits of the current traversal, in order
    assigner_calls,          \* invocations of the Assigner in this traversal
    collab,                  \* answers the collaborators gave, by their input
    first,                   \* the outcome of the first traversal
    kept                     \* cells whose index was missing at a visit that
                             \* proceeded, with their clade before that visit

config == <<given, tree, count, expr_df, snv_df, min_cell_count_expr, min_cell_count_cnv,
            min_gene_diff, min_snp_diff, level_cutoff, min_proceed_freq,
            min_record_freq, infer_s_score, infer_b_allele, row_choices,
            stubbed, run_limit>>

output == <<clone_assign_dict, pruned_clades, gene_type_score_dict,
            allele_assign_prob_dict>>

vars == <<config, output, stack, status, runs, fresh, last, visits,
          assigner_calls, collab, first, kept>>

NoDF == <<"<None>">>

\* Values of none_freq the Assigner returns.
NoneFreqs == {1, 2, 3}
\* The row count of the tables of a track the data does not have.
NoRows == -1

\* The cell matrices: expression and SNV data of MaxCells cells, or SNV data
\* only, of one cell less.
CellInputs ==
    {[expr |-> CellList(MaxCells), snv |-> CellList(MaxCells)],
     [expr |-> NoDF, snv |-> CellList(MaxCells - 1)]}

NoFrame == [clade |-> 0, cells |-> <<>>, level |-> 0, pc |-> "none",
            clean |-> <<>>, clone_assign |-> <<>>, i |-> 0]

NoProfile == [expr_input |-> NoTable, clone_cnv_df |-> NoTable,
              hscn_input |-> NoTable, snv_allele_input |-> NoTable,
              snv_input |-> NoTable]

NoResult == [none_freq |-> -1, clone_assign |-> <<>>,
             mean_gene_type_score |-> <<>>, mean_allele_assign_prob |-> <<>>]

Step(kind, f, profile, result) ==
    [kind |-> kind, clade |-> f.clade, level |-> f.level, cells |-> f.cells,
     profile |-> profile, result |-> result]

NoOutcome == [clone_assign_dict |-> <<>>, pruned_clades |-> {},
              gene_type_score_dict |-> <<>>, allele_assign_prob_dict |-> <<>>,
              visits |-> <<>>]

Outcome == [clone_assign_dict |-> clone_assign_dict, pruned_clades |-> pruned_clades,
            gene_type_score_dict |-> gene_type_score_dict,
            allele_assign_prob_dict |-> allele_assign_prob_dict,
            visits |-> visits]

\* CloneAlign.__init__ and CloneAlignTree.__init__: empty outputs.
Constructed ==
    /\ clone_assign_dict = <<>>
    /\ gene_type_score_dict = <<>>
    /\ allele_assign_prob_dict = <<>>
    /\ pruned_clades = {}

\* The fields __init__ sets after the tree (lines 54-63), and the
\* bookkeeping of a new object.
InitFields(d, th, rc, stub, limit) ==
    /\ expr_df = d.expr /\ snv_df = d.snv
    /\ min_cell_count_expr = th.min_cell_count_expr
    /\ min_cell_count_cnv = th.min_cell_count_cnv
    /\ min_gene_diff = th.min_gene_diff
    /\ min_snp_diff = th.min_snp_diff
    /\ level_cutoff = th.level_cutoff
    /\ min_proceed_freq = th.min_proceed_freq
    /\ min_record_freq = th.min_record_freq
    /\ infer_s_score = th.infer_s_score
    /\ infer_b_allele = th.infer_b_allele
    /\ row_choices = rc
    /\ stubbed = stub
    /\ run_limit = limit
    /\ Constructed
    /\ stack = <<>>
    /\ runs = 0
    /\ fresh = TRUE
    /\ visits = <<>>
    /\ assigner_calls = 0
    /\ collab = <<>>
    /\ first = NoOutcome
    /\ kept = <<>>

\* The state after construction, for thresholds th, a tree, cell matrices d
\* and input data that yield the row counts rc.
InitWith(raw, d, th, rc, stub, limit) ==
    /\ given = raw
    /\ tree = ConstructTree(raw)
    /\ count = add_tree_node_name(Ladderize(raw), 1, 0).count
    /\ status = "idle"
    /\ last = Step("init", NoFrame, NoProfile, NoResult)
    /\ InitFields(d, th, rc, stub, limit)

\* Thresholds of the traversal: every combination of the cell-count, depth
\* and frequency thresholds.
Thresholds ==
    [min_cell_count_expr : {1, MaxCells}, min_cell_count_cnv : {1, 2},
     min_gene_diff : {MaxRows}, min_snp_diff : {MaxRows},
     level_cutoff : {0, 2}, min_proceed_freq : {2, 3}, min_record_freq : {2, 3},
     infer_s_score : BOOLEAN, infer_b_allele : BOOLEAN]

\* Thresholds of the repeated traversals.
ThresholdsRepeat ==
    [min_cell_count_expr : {1}, min_cell_count_cnv : {1, 2},
     min_gene_diff : {MaxRows}, min_snp_diff : {MaxRows},
     level_cutoff : {2}, min_proceed_freq : {3}, min_record_freq : {2},
     infer_s_score : {TRUE}, infer_b_allele : {TRUE}]

\* Input data: no usable table, too few genes, genes only, genes and SNPs.
RowChoices == {<<NoRows, NoRows>>, <<MaxRows - 1, 0>>, <<MaxRows, NoRows>>,
               <<MaxRows - 1, MaxRows>>}

Init ==
    \E raw \in RawTrees, d \in CellInputs, th \in Thresholds :
        InitWith(raw, d, th, RowChoices, FALSE, 1)

\* --------------------------------------------------------------- operations
Name(n) == tree.name[n]

Top == stack[Len(stack)]

Frame(clade, cells, level) ==
    [clade |-> clade, cells |-> cells, level |-> level, pc |-> "enter",
     clean |-> <<>>, clone_assign |-> <<>>, i |-> 0]

\* A return of the top call; the traversal is done when the root call returns.
Pop ==
    /\ stack' = SubSeq(stack, 1, Len(stack) - 1)
    /\ status' = IF Len(stack) = 1 THEN "done" ELSE status

\* A recursive call assign_cells_to_clade(clade, cells, level) made by the top
\* call, which waits at position pc.
Call(pc, clean, clone_assign, i, clade, cells, level) ==
    /\ stack' = [stack EXCEPT ![Len(stack)] =
                    [@ EXCEPT !.pc = pc, !.clean = clean,
                              !.clone_assign = clone_assign, !.i = i]]
                \o <<Frame(clade, cells, level)>>
    /\ status' = status

Visit(f) == [clade |-> f.clade, level |-> f.level, cells |-> f.cells]

\* A loop that stops one cell short: range(len(expr_cells) - 1).
record_clone_assign_to_default_short(dict, expr_cells, root_clade) ==
    [c \in DOMAIN dict \cup Range(SubSeq(expr_cells, 1, Len(expr_cells) - 1)) |->
        IF c \in Range(SubSeq(expr_cells, 1, Len(expr_cells) - 1))
        THEN Name(root_clade) ELSE dict[c]]

\* record_clone_assign_to_default
record_clone_assign_to_default(dict, expr_cells, root_clade) ==
    [c \in DOMAIN dict \cup Range(expr_cells) |->
        IF c \in Range(expr_cells) THEN Name(root_clade) ELSE dict[c]]

\* The loop without the test of line 88: a nan index is recorded as the first
\* clean clade.
record_clone_assign_to_dict_untested(dict, expr_cells, clone_assign, clean_clades) ==
    LET hit(c) == {i \in 1..Len(expr_cells) : expr_cells[i] = c}
        latest(c) == CHOOSE i \in hit(c) : \A j \in hit(c) : j <= i
    IN  [c \in DOMAIN dict \cup Range(expr_cells) |->
            IF hit(c) = {} THEN dict[c]
            ELSE IF clone_assign[latest(c)] = NaN THEN Name(clean_clades[1])
            ELSE Name(clean_clades[clone_assign[latest(c)] + 1])]

\* record_clone_assign_to_dict: cells with a nan index keep their entry.
record_clone_assign_to_dict(dict, expr_cells, clone_assign, clean_clades) ==
    LET hit(c) == {i \in 1..Len(expr_cells) :
                      expr_cells[i] = c /\ clone_assign[i] # NaN}
        latest(c) == CHOOSE i \in hit(c) : \A j \in hit(c) : j <= i
    IN  [c \in DOMAIN dict \cup {expr_cells[i] : i \in {j \in 1..Len(expr_cells) :
                                                        clone_assign[j] # NaN}} |->
            IF hit(c) # {} THEN Name(clean_clades[clone_assign[latest(c)] + 1])
            ELSE dict[c]]

\* The bypass without its loop: no cell is written.
AssignAll_skipped(dict, expr_cells, clade) == dict

\* The bypass loop of lines 176-177.
AssignAll(dict, expr_cells, clade) ==
    [c \in DOMAIN dict \cup Range(expr_cells) |->
        IF c \in Range(expr_cells) THEN Name(clade) ELSE dict[c]]

\* A loop that stops one row short: range(params.shape[0] - 1).
record_param_to_dict_short(param_dict, indices, params) ==
    LET n == Len(params) - 1
        at(k) == CHOOSE i \in 1..n : indices[i] = k
        new == {indices[i] : i \in 1..n}
    IN  [k \in DOMAIN param_dict \cup new |->
            (IF k \in DOMAIN param_dict THEN param_dict[k] ELSE <<>>)
                \o (IF k \in new THEN <<params[at(k)]>> ELSE <<>>)]

\* The values put at the front of the lists: insert(0, params[i]).
record_param_to_dict_front(param_dict, indices, params) ==
    LET n == Len(params)
        at(k) == CHOOSE i \in 1..n : indices[i] = k
        new == {indices[i] : i \in 1..n}
    IN  [k \in DOMAIN param_dict \cup new |->
            (IF k \in new THEN <<params[at(k)]>> ELSE <<>>)
                \o (IF k \in DOMAIN param_dict THEN param_dict[k] ELSE <<>>)]

RECURSIVE record_param_to_dict(_, _, _)
\* record_param_to_dict: params[i] appended to param_dict[indices[i]].
record_param_to_dict(param_dict, indices, params) ==
    IF params = <<>> THEN param_dict
    ELSE LET k == Head(indices)
             d == IF k \in DOMAIN param_dict THEN param_dict
                  ELSE [x \in DOMAIN param_dict \cup {k} |->
                           IF x = k THEN <<>> ELSE param_dict[x]]
         IN  record_param_to_dict([d EXCEPT ![k] = Append(@, Head(params))],
                                  Tail(indices), Tail(params))

\* check_valid_df_input
check_valid_df_input(tables) ==
    \A i \in 1..Len(tables) :
        ~ (tables[i] = NoTable \/ tables[i].rows = 0 \/ tables[i].cols = 0)

\* The filter with the append to clean_clades outside its else branch: every
\* child is kept.
CleanOf_all(clades) == clades

RECURSIVE CleanOf(_)
\* The children with at least min_cell_count_cnv leaves, in the tree's order.
CleanOf(clades) ==
    IF clades = <<>> THEN <<>>
    ELSE (IF CountTerminals(tree, Head(clades)) < min_cell_count_cnv
          THEN <<>> ELSE <<Head(clades)>>) \o CleanOf(Tail(clades))

clean_clades(current_clade) == CleanOf(tree.kids[current_clade])

\* The filter with <= in place of <: a child with exactly min_cell_count_cnv
\* leaves is pruned, and kept as a clean child too.
FilterPruned_inclusive(current_clade) ==
    {Name(cl) : cl \in {c \in Range(tree.kids[current_clade]) :
                           CountTerminals(tree, c) <= min_cell_count_cnv}}

\* The children the filter of lines 166-172 adds to pruned_clades.
FilterPruned(current_clade) ==
    {Name(cl) : cl \in {c \in Range(tree.kids[current_clade]) :
                           CountTerminals(tree, c) < min_cell_count_cnv}}

\* A loop over the clean clades that skips the first one.
NamesOf_tail(clades) == {Name(clades[i]) : i \in 2..Len(clades)}

NamesOf(clades) == {Name(clades[i]) : i \in 1..Len(clades)}

\* The guard of line 144 with >= in place of >.
DepthExceeded_inclusive(f) == f.level >= level_cutoff

\* The guards of lines 144 and 151.
DepthExceeded(f) == f.level > level_cutoff

\* The guard of line 151 with <= in place of <.
Unavailable_inclusive(f) ==
    \/ Len(f.cells) <= min_cell_count_expr
    \/ Len(Terminals(tree, f.clade)) <= min_cell_count_cnv

Unavailable(f) ==
    \/ Len(f.cells) < min_cell_count_expr
    \/ Len(Terminals(tree, f.clade)) < min_cell_count_cnv

Entering == status = "running" /\ Top.pc = "enter"

Filtering == Entering /\ ~ DepthExceeded(Top) /\ ~ Unavailable(Top)

\* ------------------------------------------------------------ collaborators
\* Arguments that carry the number of traversals made so far, as a cache or a
\* seed kept on the object would.
BuilderArgs_stateful(f) ==
    <<[i \in 1..Len(clean_clades(f.clade)) |->
          [j \in 1..CountTerminals(tree, clean_clades(f.clade)[i]) |->
              Name(Terminals(tree, clean_clades(f.clade)[i])[j])]],
      f.cells, runs>>

\* The arguments of construct_total_copy_number_input and
\* construct_allele_specific_input: the leaf names of every clean child, and
\* the cells.
BuilderArgs(f) ==
    <<[i \in 1..Len(clean_clades(f.clade)) |->
          [j \in 1..CountTerminals(tree, clean_clades(f.clade)[i]) |->
              Name(Terminals(tree, clean_clades(f.clade)[i])[j])]],
      f.cells>>

Table(rows, cols) == [rows |-> rows, cols |-> cols]

\* The tables of one track with g rows: a column per cell (n) or per clean
\* child (k); no table when the data lacks the track.
TotalTrack(g, n, k) ==
    IF g = NoRows \/ expr_df = NoDF THEN [expr_input |-> NoTable, clone_cnv_df |-> NoTable]
    ELSE [expr_input |-> Table(g, n), clone_cnv_df |-> Table(g, k)]

AlleleTrack(g, n, k) ==
    IF g = NoRows \/ snv_df = NoDF
    THEN [hscn_input |-> NoTable, snv_allele_input |-> NoTable, snv_input |-> NoTable]
    ELSE [hscn_input |-> Table(g, k), snv_allele_input |-> Table(g, n),
          snv_input |-> Table(g, n)]

Profiles(n, k) ==
    {[expr_input |-> TotalTrack(rc[1], n, k).expr_input,
      clone_cnv_df |-> TotalTrack(rc[1], n, k).clone_cnv_df,
      hscn_input |-> AlleleTrack(rc[2], n, k).hscn_input,
      snv_allele_input |-> AlleleTrack(rc[2], n, k).snv_allele_input,
      snv_input |-> AlleleTrack(rc[2], n, k).snv_input] : rc \in row_choices}

\* The row labels (genes, SNPs) of a table.
Index(table) == [i \in 1..table.rows |-> i]

\* One mean value per row of a usable table, none for an absent one; the
\* values name the visit that produced them.
Params(table, base) ==
    IF table = NoTable THEN <<>> ELSE [i \in 1..table.rows |-> base + i]

\* What run_clonealign_pyro_repeat may return for n cells and k clones.
Results(clade, n, k, clone_cnv_df, hscn_input) ==
    {[none_freq |-> nf, clone_assign |-> ca,
      mean_gene_type_score |-> Params(clone_cnv_df, 10 * clade),
      mean_allele_assign_prob |-> Params(hscn_input, 100 + 10 * clade)] :
        nf \in NoneFreqs, ca \in [1..n -> {NaN} \cup (0..(k - 1))]}

Failed == [none_freq |-> -2, clone_assign |-> <<>>,
           mean_gene_type_score |-> <<>>, mean_allele_assign_prob |-> <<>>]

\* The collaborators are functions of their input: an input seen before gets
\* the answer it got before.
Known(f) == stubbed /\ BuilderArgs(f) \in DOMAIN collab

BuilderAnswers(f) ==
    IF Known(f) THEN {collab[BuilderArgs(f)].profile}
    ELSE Profiles(Len(f.cells), Len(clean_clades(f.clade)))

AssignerAnswers(f, clone_cnv_df, hscn_input) ==
    IF Known(f) /\ collab[BuilderArgs(f)].result # NoResult
    THEN {collab[BuilderArgs(f)].result}
    ELSE Results(f.clade, Len(f.cells), Len(clean_clades(f.clade)),
                 clone_cnv_df, hscn_input) \cup {Failed}

Remember(f, profile, result) ==
    IF ~ stubbed THEN collab
    ELSE
    [k \in DOMAIN collab \cup {BuilderArgs(f)} |->
        IF k = BuilderArgs(f) THEN [profile |-> profile, result |-> result]
        ELSE collab[k]]

\* ------------------------------------------------------------------ actions
\* A new object on the same inputs (__init__, lines 48-63).
Construct ==
    /\ status \in {"done", "error"}
    /\ runs < run_limit
    /\ clone_assign_dict' = <<>>
    /\ gene_type_score_dict' = <<>>
    /\ allele_assign_prob_dict' = <<>>
    /\ pruned_clades' = {}
    /\ stack' = <<>>
    /\ status' = "idle"
    /\ fresh' = TRUE
    /\ first' = IF runs = 1 THEN Outcome ELSE first
    /\ kept' = <<>>
    /\ last' = Step("construct", NoFrame, NoProfile, NoResult)
    /\ visits' = <<>>
    /\ assigner_calls' = 0
    /\ UNCHANGED <<config, runs, collab>>

\* assign_cells_to_tree (lines 112-130), up to its call of assign_cells_to_clade.
assign_cells_to_tree ==
    /\ status \in {"idle", "done", "error"}
    /\ runs < run_limit
    /\ LET cells == IF expr_df # NoDF THEN expr_df ELSE snv_df
       IN  /\ pruned_clades' = {}
           /\ clone_assign_dict' =
                  record_clone_assign_to_default(clone_assign_dict, cells, 1)
           /\ stack' = <<Frame(1, cells, 0)>>
    /\ status' = "running"
    /\ runs' = runs + 1
    /\ fresh' = (status = "idle")
    /\ first' = IF runs = 1 /\ status # "idle" THEN Outcome ELSE first
    /\ kept' = <<>>
    /\ last' = Step("start", NoFrame, NoProfile, NoResult)
    /\ visits' = <<>>
    /\ assigner_calls' = 0
    /\ UNCHANGED <<config, gene_type_score_dict, allele_assign_prob_dict, collab>>

\* Lines 144-148.
DepthGuard ==
    /\ Entering
    /\ DepthExceeded(Top)
    /\ pruned_clades' = pruned_clades \cup {Name(Top.clade)}
    /\ Pop
    /\ last' = Step("depth", Top, NoProfile, NoResult)
    /\ visits' = Append(visits, Visit(Top))
    /\ UNCHANGED <<config, clone_assign_dict, gene_type_score_dict,
                   allele_assign_prob_dict, runs, fresh, assigner_calls, collab, first, kept>>

\* Lines 150-157.
AvailabilityGuard ==
    /\ Entering
    /\ ~ DepthExceeded(Top)
    /\ Unavailable(Top)
    /\ pruned_clades' = pruned_clades \cup {Name(Top.clade)}
    /\ Pop
    /\ last' = Step("unavailable", Top, NoProfile, NoResult)
    /\ visits' = Append(visits, Visit(Top))
    /\ UNCHANGED <<config, clone_assign_dict, gene_type_score_dict,
                   allele_assign_prob_dict, runs, fresh, assigner_calls, collab, first, kept>>

\* The return of line 185 preceded by the pruning of the visited clade, as
\* the other early returns are.
NoCleanChild_pruning ==
    /\ Filtering
    /\ Len(clean_clades(Top.clade)) = 0
    /\ pruned_clades' = pruned_clades \cup FilterPruned(Top.clade)
                            \cup {Name(Top.clade)}
    /\ Pop
    /\ last' = Step("no_clean_child", Top, NoProfile, NoResult)
    /\ visits' = Append(visits, Visit(Top))
    /\ UNCHANGED <<config, clone_assign_dict, gene_type_score_dict,
                   allele_assign_prob_dict, runs, fresh, assigner_calls, collab,
                   first, kept>>

\* Lines 161-172 and 183-185: the filter leaves no clean child.
NoCleanChild ==
    /\ Filtering
    /\ Len(clean_clades(Top.clade)) = 0
    /\ pruned_clades' = pruned_clades \cup FilterPruned(Top.clade)
    /\ Pop
    /\ last' = Step("no_clean_child", Top, NoProfile, NoResult)
    /\ visits' = Append(visits, Visit(Top))
    /\ UNCHANGED <<config, clone_assign_dict, gene_type_score_dict,
                   allele_assign_prob_dict, runs, fresh, assigner_calls, collab, first, kept>>

\* The bypass with the recursive call made at the same level.
Bypass_same_level ==
    /\ Filtering
    /\ Len(clean_clades(Top.clade)) = 1
    /\ pruned_clades' = pruned_clades \cup FilterPruned(Top.clade)
    /\ clone_assign_dict' =
           AssignAll(clone_assign_dict, Top.cells, clean_clades(Top.clade)[1])
    /\ Call("bypass", clean_clades(Top.clade), <<>>, 0,
            clean_clades(Top.clade)[1], Top.cells, Top.level)
    /\ last' = Step("bypass", Top, NoProfile, NoResult)
    /\ visits' = Append(visits, Visit(Top))
    /\ UNCHANGED <<config, gene_type_score_dict, allele_assign_prob_dict,
                   runs, fresh, assigner_calls, collab, first, kept>>

\* Lines 161-180: the filter leaves one clean child.
Bypass ==
    /\ Filtering
    /\ Len(clean_clades(Top.clade)) = 1
    /\ pruned_clades' = pruned_clades \cup FilterPruned(Top.clade)
    /\ clone_assign_dict' =
           AssignAll(clone_assign_dict, Top.cells, clean_clades(Top.clade)[1])
    /\ Call("bypass", clean_clades(Top.clade), <<>>, 0,
            clean_clades(Top.clade)[1], Top.cells, Top.level + 1)
    /\ last' = Step("bypass", Top, NoProfile, NoResult)
    /\ visits' = Append(visits, Visit(Top))
    /\ UNCHANGED <<config, gene_type_score_dict, allele_assign_prob_dict,
                   runs, fresh, assigner_calls, collab, first, kept>>

has_total_copy_number_data(p) == check_valid_df_input(<<p.expr_input, p.clone_cnv_df>>)

has_allele_specific_data(p) ==
    check_valid_df_input(<<p.hscn_input, p.snv_allele_input, p.snv_input>>)

gene_count(p) == IF has_total_copy_number_data(p) THEN p.clone_cnv_df.rows ELSE 0

snp_count(p) == IF has_allele_specific_data(p) THEN p.hscn_input.rows ELSE 0

\* The tables passed on as the builders returned them.
Usable_raw(p) == p

\* Lines 203-220: the tables of a track that is not usable are set to None.
Usable(p) ==
    [expr_input |-> IF has_total_copy_number_data(p) THEN p.expr_input ELSE NoTable,
     clone_cnv_df |-> IF has_total_copy_number_data(p) THEN p.clone_cnv_df ELSE NoTable,
     hscn_input |-> IF has_allele_specific_data(p) THEN p.hscn_input ELSE NoTable,
     snv_allele_input |-> IF has_allele_specific_data(p) THEN p.snv_allele_input
                          ELSE NoTable,
     snv_input |-> IF has_allele_specific_data(p) THEN p.snv_input ELSE NoTable]

\* The test of line 222 left out: no input counts as invalid.
NoValidInput_omitted(p) == FALSE

\* Lines 222 and 228.
NoValidInput(p) == ~ has_total_copy_number_data(p) /\ ~ has_allele_specific_data(p)

InsufficientSignal(p) == gene_count(p) < min_gene_diff /\ snp_count(p) < min_snp_diff

Gating == Filtering /\ Len(clean_clades(Top.clade)) >= 2

\* The return with pruned_clades assigned the clean children instead of
\* gaining them.
GateStops_assigning(kind, p) ==
    /\ pruned_clades' = NamesOf(clean_clades(Top.clade))
    /\ Pop
    /\ last' = Step(kind, Top, p, NoResult)
    /\ visits' = Append(visits, Visit(Top))
    /\ collab' = Remember(Top, p, NoResult)
    /\ UNCHANGED <<config, clone_assign_dict, gene_type_score_dict,
                   allele_assign_prob_dict, runs, fresh, assigner_calls, first, kept>>

\* A return of lines 222-226 or 228-234: every clean child is pruned.
GateStops(kind, p) ==
    /\ pruned_clades' = pruned_clades \cup FilterPruned(Top.clade)
                            \cup NamesOf(clean_clades(Top.clade))
    /\ Pop
    /\ last' = Step(kind, Top, p, NoResult)
    /\ visits' = Append(visits, Visit(Top))
    /\ collab' = Remember(Top, p, NoResult)
    /\ UNCHANGED <<config, clone_assign_dict, gene_type_score_dict,
                   allele_assign_prob_dict, runs, fresh, assigner_calls, first, kept>>

\* Lines 193-226.
NoValidInputStop ==
    /\ Gating
    /\ \E p \in BuilderAnswers(Top) :
          /\ NoValidInput(p)
          /\ GateStops("no_valid_input", p)

\* Lines 193-234.
InsufficientSignalStop ==
    /\ Gating
    /\ \E p \in BuilderAnswers(Top) :
          /\ ~ NoValidInput(p)
          /\ InsufficientSignal(p)
          /\ GateStops("insufficient_signal", p)

\* The cells of a proceeding visit whose index is nan, with the clade they
\* have when the visit begins.
Keep(k, expr_cells, clone_assign) ==
    LET miss == {expr_cells[i] : i \in {j \in 1..Len(expr_cells) :
                                           clone_assign[j] = NaN}}
    IN  [c \in DOMAIN k \cup miss |->
            IF c \in miss THEN clone_assign_dict[c] ELSE k[c]]

\* The comparison of line 269 with > in place of >=.
Recorded_strict(none_freq) == One - none_freq > min_record_freq

\* The condition of line 283 without its first conjunct.
Proceeds_unrecorded(none_freq) == One - none_freq >= min_proceed_freq

\* The decisions of lines 269 and 283.
Recorded(none_freq) == One - none_freq >= min_record_freq

Proceeds(none_freq) ==
    One - none_freq >= min_record_freq /\ One - none_freq >= min_proceed_freq

\* Lines 193-294 with a call of the Assigner that returns r.
RunCloneAlign ==
    /\ Gating
    /\ \E p \in BuilderAnswers(Top) :
          /\ ~ NoValidInput(p)
          /\ ~ InsufficientSignal(p)
          /\ \E r \in AssignerAnswers(Top, Usable(p).clone_cnv_df, Usable(p).hscn_input)
                     \ {Failed} :
                /\ clone_assign_dict' =
                       IF Recorded(r.none_freq)
                       THEN record_clone_assign_to_dict(clone_assign_dict, Top.cells,
                                r.clone_assign, clean_clades(Top.clade))
                       ELSE clone_assign_dict
                /\ gene_type_score_dict' =
                       IF Recorded(r.none_freq) /\ has_total_copy_number_data(p)
                          /\ infer_s_score
                       THEN record_param_to_dict(gene_type_score_dict,
                                Index(p.clone_cnv_df), r.mean_gene_type_score)
                       ELSE gene_type_score_dict
                /\ allele_assign_prob_dict' =
                       IF Recorded(r.none_freq) /\ has_allele_specific_data(p)
                          /\ infer_b_allele
                       THEN record_param_to_dict(allele_assign_prob_dict,
                                Index(p.hscn_input), r.mean_allele_assign_prob)
                       ELSE allele_assign_prob_dict
                /\ IF Proceeds(r.none_freq)
                   THEN /\ pruned_clades' = pruned_clades \cup FilterPruned(Top.clade)
                        /\ stack' = [stack EXCEPT ![Len(stack)] =
                                        [@ EXCEPT !.pc = "loop",
                                                  !.clean = clean_clades(Top.clade),
                                                  !.clone_assign = r.clone_assign,
                                                  !.i = 0]]
                        /\ status' = status
                   ELSE /\ pruned_clades' = pruned_clades \cup FilterPruned(Top.clade)
                                                \cup NamesOf(clean_clades(Top.clade))
                        /\ Pop
                /\ last' = Step("assigner", Top, Usable(p), r)
                /\ collab' = Remember(Top, p, r)
                /\ kept' = IF Proceeds(r.none_freq)
                           THEN Keep(kept, Top.cells, r.clone_assign)
                           ELSE kept
    /\ visits' = Append(visits, Visit(Top))
    /\ assigner_calls' = assigner_calls + 1
    /\ UNCHANGED <<config, runs, fresh, first>>

\* The failure handled by a clean-up that prunes the clean children before
\* the exception leaves.
AssignerFails_pruning ==
    /\ Gating
    /\ \E p \in BuilderAnswers(Top) :
          /\ ~ NoValidInput(p)
          /\ ~ InsufficientSignal(p)
          /\ Failed \in AssignerAnswers(Top, Usable(p).clone_cnv_df, Usable(p).hscn_input)
          /\ last' = Step("failure", Top, Usable(p), Failed)
          /\ collab' = Remember(Top, p, Failed)
    /\ pruned_clades' = pruned_clades \cup FilterPruned(Top.clade)
                            \cup NamesOf(clean_clades(Top.clade))
    /\ stack' = <<>>
    /\ status' = "error"
    /\ visits' = Append(visits, Visit(Top))
    /\ assigner_calls' = assigner_calls + 1
    /\ UNCHANGED <<config, clone_assign_dict, gene_type_score_dict,
                   allele_assign_prob_dict, runs, fresh, first, kept>>

\* Line 256 raises: the exception leaves assign_cells_to_tree.
AssignerFails ==
    /\ Gating
    /\ \E p \in BuilderAnswers(Top) :
          /\ ~ NoValidInput(p)
          /\ ~ InsufficientSignal(p)
          /\ Failed \in AssignerAnswers(Top, Usable(p).clone_cnv_df, Usable(p).hscn_input)
          /\ last' = Step("failure", Top, Usable(p), Failed)
          /\ collab' = Remember(Top, p, Failed)
    /\ pruned_clades' = pruned_clades \cup FilterPruned(Top.clade)
    /\ stack' = <<>>
    /\ status' = "error"
    /\ visits' = Append(visits, Visit(Top))
    /\ assigner_calls' = assigner_calls + 1
    /\ UNCHANGED <<config, clone_assign_dict, gene_type_score_dict,
                   allele_assign_prob_dict, runs, fresh, first, kept>>

\* The loop over the clean children run from the last one to the first.
ProceedChild_reversed ==
    /\ status = "running"
    /\ Top.pc = "loop"
    /\ Top.i < Len(Top.clean)
    /\ Call("loop", Top.clean, Top.clone_assign, Top.i + 1,
            Top.clean[Len(Top.clean) - Top.i],
            SelectIdx(Top.cells, Top.clone_assign, Len(Top.clean) - Top.i - 1),
            Top.level + 1)
    /\ last' = Step("descend", Top, NoProfile, NoResult)
    /\ UNCHANGED <<config, output, runs, fresh, visits, assigner_calls, collab,
                   first, kept>>

\* Lines 286-288: one iteration of the loop over the clean children.
ProceedChild ==
    /\ status = "running"
    /\ Top.pc = "loop"
    /\ Top.i < Len(Top.clean)
    /\ Call("loop", Top.clean, Top.clone_assign, Top.i + 1, Top.clean[Top.i + 1],
            SelectIdx(Top.cells, Top.clone_assign, Top.i), Top.level + 1)
    /\ last' = Step("descend", Top, NoProfile, NoResult)
    /\ UNCHANGED <<config, output, runs, fresh, visits, assigner_calls, collab, first, kept>>

\* A return that leaves the call on the stack.
Return_stays ==
    /\ status = "running"
    /\ \/ Top.pc = "bypass"
       \/ Top.pc = "loop" /\ Top.i = Len(Top.clean)
    /\ last' = Step("return", Top, NoProfile, NoResult)
    /\ UNCHANGED <<config, output, stack, status, runs, fresh, visits,
                   assigner_calls, collab, first, kept>>

\* Lines 180 and 289: the return after the last recursive call.
Return ==
    /\ status = "running"
    /\ \/ Top.pc = "bypass"
       \/ Top.pc = "loop" /\ Top.i = Len(Top.clean)
    /\ Pop
    /\ last' = Step("return", Top, NoProfile, NoResult)
    /\ UNCHANGED <<config, output, runs, fresh, visits, assigner_calls, collab, first, kept>>

Next ==
    \/ assign_cells_to_tree
    \/ DepthGuard
    \/ AvailabilityGuard
    \/ NoCleanChild
    \/ Bypass
    \/ NoValidInputStop
    \/ InsufficientSignalStop
    \/ RunCloneAlign
    \/ AssignerFails
    \/ ProceedChild
    \/ Return

Spec == Init /\ [][Next]_vars

\* Behaviours that run the traversal MaxRuns times, on the same object or on
\* a new one, with collaborators that are deterministic stubs.
InitRepeat ==
    \E raw \in {RawTreeBalanced, RawTreeLadder}, d \in CellInputs,
       th \in ThresholdsRepeat :
        InitWith(raw, d, th, RowChoices \ {<<MaxRows, NoRows>>}, TRUE, MaxRuns)

NextRepeat ==
    \/ Construct
    \/ assign_cells_to_tree
    \/ DepthGuard
    \/ AvailabilityGuard
    \/ NoCleanChild
    \/ Bypass
    \/ NoValidInputStop
    \/ InsufficientSignalStop
    \/ RunCloneAlign
    \/ AssignerFails
    \/ ProceedChild
    \/ Return

SpecRepeat == InitRepeat /\ [][NextRepeat]_vars

\* Behaviours in which no call of the Assigner fails.  The traversal is one
\* sequential computation: a step that can be taken is taken.
Traverse ==
    \/ DepthGuard
    \/ AvailabilityGuard
    \/ NoCleanChild
    \/ Bypass
    \/ NoValidInputStop
    \/ InsufficientSignalStop
    \/ RunCloneAlign
    \/ ProceedChild
    \/ Return

NextNoFailure ==
    \/ assign_cells_to_tree
    \/ DepthGuard
    \/ AvailabilityGuard
    \/ NoCleanChild
    \/ Bypass
    \/ NoValidInputStop
    \/ InsufficientSignalStop
    \/ RunCloneAlign
    \/ ProceedChild
    \/ Return

\* Thresholds with the flags set, recording at a lower frequency than
\* proceeding.
ThresholdsNoFailure ==
    {th \in Thresholds : /\ th.min_record_freq < th.min_proceed_freq
                         /\ th.infer_s_score /\ th.infer_b_allele}

InitNoFailure ==
    \E raw \in RawTrees, d \in CellInputs, th \in ThresholdsNoFailure :
        InitWith(raw, d, th, RowChoices, FALSE, 1)

SpecNoFailure == InitNoFailure /\ [][NextNoFailure]_vars /\ WF_vars(Traverse)

\* Behaviours with row-count thresholds of zero and of MaxRows, and visits
\* that may have no cell.
ThresholdsGate ==
    [min_cell_count_expr : {0, 1}, min_cell_count_cnv : {1, 2},
     min_gene_diff : {0, MaxRows}, min_snp_diff : {0, MaxRows},
     level_cutoff : {2}, min_proceed_freq : {3}, min_record_freq : {2},
     infer_s_score : {TRUE}, infer_b_allele : {TRUE}]

InitGate ==
    \E raw \in RawTrees, d \in CellInputs, th \in ThresholdsGate :
        InitWith(raw, d, th, RowChoices, FALSE, 1)

SpecGate == InitGate /\ [][Next]_vars

\* -------------------------------------------------------------- properties
\* The cells the traversal is given (lines 120-123).
InputCells == IF expr_df # NoDF THEN expr_df ELSE snv_df

ClaNames == {Name(n) : n \in Nodes(tree)}

\* The clade of a name.
NodeOf(name) == CHOOSE n \in Nodes(tree) : Name(n) = name

\* The clades strictly above n.
Ancestors(n) == {a \in Nodes(tree) : n \in Descendants(tree, a) /\ a # n}

Depth(n) == Cardinality(Ancestors(n))

\* C1 Totality: when assign_cells_to_tree has returned, every input cell has a
\* clade name of the tree in clone_assign_dict.
C1_Totality ==
    status = "done" =>
        \A c \in Range(InputCells) :
            c \in DOMAIN clone_assign_dict /\ clone_assign_dict[c] \in ClaNames

\* The root is pruned at once and every cell stays at the root.
C1_Witness ==
    /\ status = "done"
    /\ visits = <<[clade |-> 1, level |-> 0, cells |-> InputCells]>>
    /\ Name(1) \in pruned_clades
    /\ InputCells # <<>>
    /\ \A c \in Range(InputCells) : clone_assign_dict[c] = Name(1)

\* C2 Monotone refinement: while a traversal runs, a step that changes the
\* clade of a cell replaces it by a clade below it.
C2_MonotoneRefinement ==
    [][status = "running" =>
          \A c \in DOMAIN clone_assign_dict :
              /\ c \in DOMAIN clone_assign_dict'
              /\ clone_assign_dict'[c] # clone_assign_dict[c] =>
                     NodeOf(clone_assign_dict[c])
                         \in Ancestors(NodeOf(clone_assign_dict'[c]))]_vars

\* A cell was refined twice: it sits two levels below the root.
C2_Witness ==
    \E c \in DOMAIN clone_assign_dict :
        /\ clone_assign_dict[c] \in ClaNames
        /\ Depth(NodeOf(clone_assign_dict[c])) = 2

\* C3 Frontier disjointness: a clade whose visit begins is not in
\* pruned_clades and is below no clade of pruned_clades.
C3_FrontierDisjoint ==
    Entering =>
        \A n \in Nodes(tree) :
            Top.clade \in Descendants(tree, n) => Name(n) \notin pruned_clades

\* A visit below the root with two clean children begins while pruned_clades
\* holds clades.
C3_Witness ==
    /\ Entering
    /\ Top.level >= 1
    /\ pruned_clades # {}
    /\ ~ DepthExceeded(Top) /\ ~ Unavailable(Top)
    /\ Len(clean_clades(Top.clade)) >= 2

\* The outputs of a traversal.
Outputs(o) == <<o.clone_assign_dict, o.pruned_clades, o.gene_type_score_dict,
                o.allele_assign_prob_dict>>

\* C4 Determinism: a traversal on a new object, with the same inputs and
\* deterministic collaborators, makes the visits of the first traversal and
\* ends with its clone_assign_dict, pruned_clades and accumulators.
C4_Determinism ==
    (status = "done" /\ runs >= 2 /\ fresh) => Outcome = first

\* A second traversal on a new object ended after two Assigner calls that
\* recorded scores.
C4_Witness ==
    /\ status = "done" /\ runs = 2 /\ fresh
    /\ assigner_calls >= 2
    /\ gene_type_score_dict # <<>>
    /\ pruned_clades # {}

\* The leaves below a clade, as a number.
LeafCount(n) == Cardinality({m \in Descendants(tree, n) : tree.kids[m] = <<>>})

\* The direct children with at least min_cell_count_cnv leaves.
CleanSet(n) == {c \in Range(tree.kids[n]) : LeafCount(c) >= min_cell_count_cnv}

\* A visit begins that passes the depth and the availability guard.
PassesGuards ==
    /\ status = "running" /\ Top.pc = "enter"
    /\ Top.level <= level_cutoff
    /\ Len(Top.cells) >= min_cell_count_expr
    /\ LeafCount(Top.clade) >= min_cell_count_cnv

Popped == SubSeq(stack, 1, Len(stack) - 1)

\* C5 Bypass law: a visit past the guards with exactly one clean child sets
\* every eligible cell to that child, makes no Assigner call, and calls the
\* visit of that child at level + 1 with the same cells.
C5_BypassLaw ==
    [][(PassesGuards /\ Cardinality(CleanSet(Top.clade)) = 1) =>
          LET child == CHOOSE c \in CleanSet(Top.clade) : TRUE
          IN  /\ \A c \in Range(Top.cells) : clone_assign_dict'[c] = Name(child)
              /\ assigner_calls' = assigner_calls
              /\ status' = "running"
              /\ Len(stack') = Len(stack) + 1
              /\ stack'[Len(stack')].pc = "enter"
              /\ stack'[Len(stack')].clade = child
              /\ stack'[Len(stack')].cells = Top.cells
              /\ stack'[Len(stack')].level = Top.level + 1]_vars

\* A bypass moved cells to the only clean child, whose visit begins.
C5_Witness ==
    /\ last.kind = "bypass"
    /\ Entering
    /\ Top.cells # <<>>
    /\ Top.level = last.level + 1
    /\ \A c \in Range(Top.cells) : clone_assign_dict[c] = Name(Top.clade)

\* C6 Availability guard: a visit at a level <= level_cutoff prunes the
\* visited clade and stops, changing nothing else, iff it has fewer than
\* min_cell_count_expr cells or fewer than min_cell_count_cnv leaves;
\* otherwise it filters the children and does not prune the clade.
C6_AvailabilityGuard ==
    [][(status = "running" /\ Top.pc = "enter" /\ Top.level <= level_cutoff) =>
          IF \/ Len(Top.cells) < min_cell_count_expr
             \/ LeafCount(Top.clade) < min_cell_count_cnv
          THEN /\ pruned_clades' = pruned_clades \cup {Name(Top.clade)}
               /\ stack' = Popped
               /\ assigner_calls' = assigner_calls
               /\ UNCHANGED <<clone_assign_dict, gene_type_score_dict,
                              allele_assign_prob_dict>>
          ELSE /\ Name(Top.clade) \notin pruned_clades'
               /\ \A c \in Range(tree.kids[Top.clade]) \ CleanSet(Top.clade) :
                      Name(c) \in pruned_clades']_vars

\* A visit with exactly min_cell_count_expr cells and min_cell_count_cnv
\* leaves went on to filter the children.
C6_Witness ==
    /\ last.kind \in {"no_clean_child", "bypass", "no_valid_input",
                      "insufficient_signal", "assigner"}
    /\ Len(last.cells) = min_cell_count_expr
    /\ LeafCount(last.clade) = min_cell_count_cnv
    /\ Name(last.clade) \notin pruned_clades

\* A step in which the Assigner was called and returned.
AssignerReturned == assigner_calls' = assigner_calls + 1 /\ status' # "error"

\* The cells at the positions where the index vector holds i, in their order.
CellsWithIndex(cells, clone_assign, i) ==
    LET K == {k \in 1..Len(cells) : clone_assign[k] = i}
    IN  [j \in 1..Cardinality(K) |->
            cells[CHOOSE k \in K : Cardinality({m \in K : m <= k}) = j]]

\* C7 Proceed decision: after a call of the Assigner the visit iterates over
\* the clean children iff 1 - none_freq reaches min_record_freq and
\* min_proceed_freq, else it prunes every clean child and returns; the
\* iteration visits clean child i, in roster order, at level + 1, with the
\* cells whose index is i.
C7_ProceedDecision ==
    [][/\ AssignerReturned =>
              IF /\ One - last'.result.none_freq >= min_record_freq
                 /\ One - last'.result.none_freq >= min_proceed_freq
              THEN /\ stack' = [stack EXCEPT ![Len(stack)] =
                                   [@ EXCEPT !.pc = "loop",
                                             !.clean = clean_clades(Top.clade),
                                             !.clone_assign = last'.result.clone_assign,
                                             !.i = 0]]
                   /\ \A c \in CleanSet(Top.clade) : Name(c) \notin pruned_clades'
              ELSE /\ \A c \in CleanSet(Top.clade) : Name(c) \in pruned_clades'
                   /\ stack' = Popped
       /\ (status = "running" /\ Top.pc = "loop") =>
              IF Top.i < Len(Top.clean)
              THEN /\ Len(stack') = Len(stack) + 1
                   /\ stack'[Len(stack)].i = Top.i + 1
                   /\ stack'[Len(stack')] =
                          Frame(Top.clean[Top.i + 1],
                                CellsWithIndex(Top.cells, Top.clone_assign, Top.i),
                                Top.level + 1)
              ELSE stack' = Popped]_vars

\* The Assigner split the cells over two clean children and the visit of the
\* second one begins with its cells.
C7_Witness ==
    /\ Entering
    /\ Len(stack) >= 2
    /\ stack[Len(stack) - 1].pc = "loop"
    /\ stack[Len(stack) - 1].i = 2
    /\ {0, 1} \subseteq Range(stack[Len(stack) - 1].clone_assign)
    /\ Top.cells # <<>>
    /\ Top.level = stack[Len(stack) - 1].level + 1

\* C8 Recording decision: after a call of the Assigner the cells are committed
\* per the index vector iff 1 - none_freq >= min_record_freq; otherwise
\* clone_assign_dict and the accumulators keep their values, every clean
\* child is pruned and the visit returns.
C8_RecordingDecision ==
    [][AssignerReturned =>
          LET r == last'.result
          IN  IF One - r.none_freq >= min_record_freq
              THEN \A k \in 1..Len(Top.cells) :
                      clone_assign_dict'[Top.cells[k]] =
                          IF r.clone_assign[k] # NaN
                          THEN Name(clean_clades(Top.clade)[r.clone_assign[k] + 1])
                          ELSE clone_assign_dict[Top.cells[k]]
              ELSE /\ UNCHANGED <<clone_assign_dict, gene_type_score_dict,
                                  allele_assign_prob_dict>>
                   /\ \A c \in CleanSet(Top.clade) : Name(c) \in pruned_clades'
                   /\ stack' = Popped]_vars

\* A result with 1 - none_freq equal to min_record_freq was recorded.
C8_Witness ==
    /\ last.kind = "assigner"
    /\ One - last.result.none_freq = min_record_freq
    /\ \E k \in 1..Len(last.cells) :
           /\ last.result.clone_assign[k] # NaN
           /\ clone_assign_dict[last.cells[k]] =
                  Name(clean_clades(last.clade)[last.result.clone_assign[k] + 1])

\* C9 Termination: a traversal in which no Assigner call fails finishes, with
\* clone_assign_dict total over the input cells and pruned_clades a set of
\* clades.
C9_Termination ==
    (status = "running") ~>
        (/\ status = "done"
         /\ \A c \in Range(InputCells) :
                c \in DOMAIN clone_assign_dict /\ clone_assign_dict[c] \in ClaNames
         /\ pruned_clades \subseteq ClaNames)

\* A traversal with three Assigner calls has finished.
C9_Witness ==
    /\ status = "done"
    /\ assigner_calls >= 3
    /\ Len(visits) >= 5

\* C10 Fresh state per run: a second traversal on the same object ends with
\* the clone_assign_dict, pruned_clades and accumulators of the first.
C10_FreshStatePerRun ==
    (status = "done" /\ runs = 2 /\ ~ fresh) => Outputs(Outcome) = Outputs(first)

\* The direct children of n that are not clean children.
NotClean(n) == Range(tree.kids[n]) \ CleanSet(n)

\* The kinds of step that end a visit at a guard.
GuardKinds == {"depth", "unavailable", "no_clean_child", "no_valid_input",
               "insufficient_signal"}

\* C11 Failure semantics: a traversal enters the error state only by a
\* failing call of the Assigner, made at a visit past the guards with two or
\* more clean children and a usable input with enough signal; that step
\* leaves clone_assign_dict and the accumulators as they were, adds to
\* pruned_clades only the children the filter removed, and leaves no call
\* active.  A visit that ends at a guard, or with too little confidence,
\* prunes and never enters the error state.
C11_FailureSemantics ==
    [][/\ (status' = "error" /\ status # "error") =>
              /\ PassesGuards
              /\ Cardinality(CleanSet(Top.clade)) >= 2
              /\ last'.kind = "failure"
              /\ \/ has_total_copy_number_data(last'.profile)
                 \/ has_allele_specific_data(last'.profile)
              /\ \/ gene_count(last'.profile) >= min_gene_diff
                 \/ snp_count(last'.profile) >= min_snp_diff
              /\ assigner_calls' = assigner_calls + 1
              /\ UNCHANGED <<clone_assign_dict, gene_type_score_dict,
                             allele_assign_prob_dict>>
              /\ pruned_clades' = pruned_clades
                                      \cup {Name(c) : c \in NotClean(Top.clade)}
              /\ stack' = <<>>
       /\ (status = "running" /\ Top.pc = "enter" /\ status' # "error") =>
              \/ last'.kind \in {"depth", "unavailable"}
                    /\ Name(Top.clade) \in pruned_clades'
                    /\ stack' = Popped
              \/ last'.kind = "no_clean_child" /\ stack' = Popped
              \/ last'.kind = "bypass"
              \/ last'.kind \in {"no_valid_input", "insufficient_signal"}
                    /\ \A c \in CleanSet(Top.clade) : Name(c) \in pruned_clades'
                    /\ stack' = Popped
              \/ last'.kind = "assigner"
       /\ (status = "running" /\ Top.pc = "enter" /\
              \/ Top.level > level_cutoff
              \/ Len(Top.cells) < min_cell_count_expr
              \/ LeafCount(Top.clade) < min_cell_count_cnv
              \/ Cardinality(CleanSet(Top.clade)) < 2) => status' # "error"
       /\ status = "error" => stack = <<>>]_vars

\* The Assigner failed at a visit below the root, after cells were committed
\* and clades pruned.
C11_Witness ==
    /\ status = "error"
    /\ last.kind = "failure"
    /\ last.level >= 1
    /\ stack = <<>>
    /\ pruned_clades # {}
    /\ \E c \in DOMAIN clone_assign_dict : clone_assign_dict[c] # Name(1)

\* C12 pruned_clades grows monotonically: a step of a running traversal
\* removes no name from pruned_clades; the names it adds are the visited
\* clade or children of it, and the set holds a name once however often it
\* was added (never more names than the tree has clades).
C12_PrunedMonotone ==
    [][status = "running" =>
          /\ pruned_clades \subseteq pruned_clades'
          /\ pruned_clades' \subseteq
                 pruned_clades \cup {Name(Top.clade)}
                     \cup {Name(c) : c \in Range(tree.kids[Top.clade])}
          /\ Cardinality(pruned_clades') <= Cardinality(Nodes(tree))]_vars

\* A visit below the root ended at a guard and pruned, and a name pruned by
\* an earlier visit is still in pruned_clades.
C12_Witness ==
    /\ last.kind \in GuardKinds
    /\ last.level >= 1
    /\ Name(last.clade) \in pruned_clades
          \/ \E c \in Range(tree.kids[last.clade]) : Name(c) \in pruned_clades
    /\ \E n \in pruned_clades :
           NodeOf(n) \notin {last.clade} \cup Range(tree.kids[last.clade])

\* A dictionary of lists with value params[i] appended to the list of row i,
\* for every row of the table.
Appended(dict, table, params) ==
    [k \in DOMAIN dict \cup (1..table.rows) |->
        (IF k \in DOMAIN dict THEN dict[k] ELSE <<>>)
            \o (IF k \in 1..table.rows THEN <<params[k]>> ELSE <<>>)]

\* A step in which the Assigner returned and the visit recorded.
Recording ==
    AssignerReturned /\ One - last'.result.none_freq >= min_record_freq

\* C13 Score accumulation (as claimed): a visit that records appends one
\* gene-type score per row of the consensus copy-number table when the
\* total-copy-number track was usable, and one allele-assignment probability
\* per row of the haplotype table when the allele-specific track was usable;
\* a track that was not usable gets no entry.
C13_ScoreAccumulation ==
    [][Recording =>
          /\ gene_type_score_dict' =
                 IF has_total_copy_number_data(last'.profile)
                 THEN Appended(gene_type_score_dict, last'.profile.clone_cnv_df,
                               last'.result.mean_gene_type_score)
                 ELSE gene_type_score_dict
          /\ allele_assign_prob_dict' =
                 IF has_allele_specific_data(last'.profile)
                 THEN Appended(allele_assign_prob_dict, last'.profile.hscn_input,
                               last'.result.mean_allele_assign_prob)
                 ELSE allele_assign_prob_dict]_vars

\* C13 Score accumulation (amended): a visit that records appends the
\* gene-type scores when the total-copy-number track was usable and
\* infer_s_score is set, and the allele-assignment probabilities when the
\* allele-specific track was usable and infer_b_allele is set; a track that
\* was not usable or whose flag is not set gets no entry.
C13_ScoreAccumulationByFlag ==
    [][Recording =>
          /\ gene_type_score_dict' =
                 IF has_total_copy_number_data(last'.profile) /\ infer_s_score
                 THEN Appended(gene_type_score_dict, last'.profile.clone_cnv_df,
                               last'.result.mean_gene_type_score)
                 ELSE gene_type_score_dict
          /\ allele_assign_prob_dict' =
                 IF has_allele_specific_data(last'.profile) /\ infer_b_allele
                 THEN Appended(allele_assign_prob_dict, last'.profile.hscn_input,
                               last'.result.mean_allele_assign_prob)
                 ELSE allele_assign_prob_dict]_vars

\* A visit below the root recorded with both tracks usable and both flags
\* set: a SNP has two probabilities, a gene has a score.
C13_Witness ==
    /\ last.kind = "assigner"
    /\ last.level >= 1
    /\ One - last.result.none_freq >= min_record_freq
    /\ has_total_copy_number_data(last.profile)
    /\ has_allele_specific_data(last.profile)
    /\ infer_s_score /\ infer_b_allele
    /\ gene_type_score_dict # <<>>
    /\ \E k \in DOMAIN allele_assign_prob_dict :
           /\ Len(allele_assign_prob_dict[k]) = 2
           /\ allele_assign_prob_dict[k][2] = last.result.mean_allele_assign_prob[k]

\* C14 Depth guard and depth bound: a visit at a level above level_cutoff
\* prunes the visited clade and returns, with no cell reassigned, no Assigner
\* call and no recursive call; a visit at level_cutoff that has enough cells
\* and leaves is not pruned; no call is ever active at a level above
\* level_cutoff + 1.
C14_DepthGuard ==
    [][/\ (Entering /\ Top.level > level_cutoff) =>
              /\ pruned_clades' = pruned_clades \cup {Name(Top.clade)}
              /\ stack' = Popped
              /\ assigner_calls' = assigner_calls
              /\ UNCHANGED <<clone_assign_dict, gene_type_score_dict,
                             allele_assign_prob_dict>>
       /\ (/\ Entering /\ Top.level = level_cutoff
           /\ Len(Top.cells) >= min_cell_count_expr
           /\ LeafCount(Top.clade) >= min_cell_count_cnv) =>
              Name(Top.clade) \notin pruned_clades'
       /\ \A i \in 1..Len(stack') : stack'[i].level <= level_cutoff + 1]_vars

\* A visit three levels below the root was stopped by the depth guard.
C14_Witness ==
    /\ last.kind = "depth"
    /\ last.level = level_cutoff + 1
    /\ last.level = 3
    /\ last.cells # <<>>
    /\ Name(last.clade) \in pruned_clades

\* C15 Child viability filter: at a visit past the guards the children with
\* fewer than min_cell_count_cnv leaves are pruned in that step and the
\* roster of clean children is exactly the children with at least
\* min_cell_count_cnv leaves; a clade other than the root with fewer leaves is
\* never visited and no cell is ever assigned to it.
C15_ChildFilter ==
    [][/\ PassesGuards =>
              /\ \A c \in Range(tree.kids[Top.clade]) :
                     LeafCount(c) < min_cell_count_cnv => Name(c) \in pruned_clades'
              /\ Len(stack') > Len(stack) =>
                     /\ Range(stack'[Len(stack)].clean) =
                            {c \in Range(tree.kids[Top.clade]) :
                                LeafCount(c) >= min_cell_count_cnv}
                     /\ LeafCount(stack'[Len(stack')].clade) >= min_cell_count_cnv
              /\ (Len(stack') = Len(stack) /\ status' = "running") =>
                     Range(stack'[Len(stack)].clean) =
                         {c \in Range(tree.kids[Top.clade]) :
                             LeafCount(c) >= min_cell_count_cnv}
       /\ \A n \in Nodes(tree) \ {1} :
              LeafCount(n) < min_cell_count_cnv =>
                  /\ \A i \in 1..Len(stack') : stack'[i].clade # n
                  /\ \A i \in 1..Len(visits') : visits'[i].clade # n
                  /\ \A c \in DOMAIN clone_assign_dict' :
                         clone_assign_dict'[c] # Name(n)]_vars

\* A traversal ended in which a child with too few leaves was pruned by the
\* filter and the cells went two levels down through its clean siblings.
C15_Witness ==
    /\ status = "done"
    /\ \E n \in Nodes(tree) \ {1} :
           /\ LeafCount(n) < min_cell_count_cnv
           /\ Name(n) \in pruned_clades
           /\ LeafCount(CHOOSE a \in Nodes(tree) : n \in Range(tree.kids[a]))
                  >= min_cell_count_cnv
    /\ \E c \in DOMAIN clone_assign_dict :
           /\ Depth(NodeOf(clone_assign_dict[c])) = 2
           /\ LeafCount(NodeOf(clone_assign_dict[c])) = min_cell_count_cnv

\* A track of the tables q is absent as a whole or usable.
TracksAbsentOrUsable(q) ==
    /\ \/ has_total_copy_number_data(q)
       \/ q.expr_input = NoTable /\ q.clone_cnv_df = NoTable
    /\ \/ has_allele_specific_data(q)
       \/ q.hscn_input = NoTable /\ q.snv_allele_input = NoTable
             /\ q.snv_input = NoTable

\* C16 Input gating: at a visit past the guards with two or more clean
\* children, if neither track is usable, or the gene count is below
\* min_gene_diff and the SNP count below min_snp_diff (0 rows for a track
\* that is not usable), every clean child is pruned and the visit returns
\* with no Assigner call and no cell reassigned; otherwise the Assigner is
\* called once, with the tables of a track that is not usable absent.
C16_InputGating ==
    [][(PassesGuards /\ Cardinality(CleanSet(Top.clade)) >= 2) =>
          LET q == last'.profile
          IN  IF \/ ~ has_total_copy_number_data(q) /\ ~ has_allele_specific_data(q)
                 \/ /\ (IF has_total_copy_number_data(q) THEN q.clone_cnv_df.rows
                        ELSE 0) < min_gene_diff
                    /\ (IF has_allele_specific_data(q) THEN q.hscn_input.rows
                        ELSE 0) < min_snp_diff
              THEN /\ \A c \in CleanSet(Top.clade) : Name(c) \in pruned_clades'
                   /\ assigner_calls' = assigner_calls
                   /\ UNCHANGED <<clone_assign_dict, gene_type_score_dict,
                                  allele_assign_prob_dict>>
                   /\ stack' = Popped
              ELSE /\ assigner_calls' = assigner_calls + 1
                   /\ TracksAbsentOrUsable(q)
                   /\ Len(stack') <= Len(stack)]_vars

\* The Assigner was called with the total-copy-number track only, the builder
\* having returned a haplotype table without rows.
C16_Witness ==
    /\ last.kind = "assigner"
    /\ snv_df # NoDF
    /\ row_choices = RowChoices
    /\ has_total_copy_number_data(last.profile)
    /\ last.profile.clone_cnv_df.rows = MaxRows - 1
    /\ last.profile.hscn_input = NoTable
    /\ min_gene_diff = 0

\* C17 Missing index: a cell whose index was missing at a visit that recorded
\* and proceeded has, from then on, the clade it had before that visit, and
\* is in the cell list of no visit that begins afterwards.
C17_MissingIndex ==
    \A c \in DOMAIN kept :
        /\ c \in DOMAIN clone_assign_dict
        /\ clone_assign_dict[c] = kept[c]
        /\ \A i \in 1..Len(stack) :
               stack[i].pc = "enter" => c \notin Range(stack[i].cells)

\* A traversal is done in which, at a visit below the root that proceeded,
\* one cell had no index and another went on to a child.
C17_Witness ==
    /\ status = "done"
    /\ \E c \in DOMAIN kept, d \in DOMAIN clone_assign_dict :
           /\ Depth(NodeOf(kept[c])) = 1
           /\ clone_assign_dict[c] = kept[c]
           /\ NodeOf(kept[c]) \in Ancestors(NodeOf(clone_assign_dict[d]))

\* C18 Zero clean children: a visit past the guards none of whose children
\* has min_cell_count_cnv leaves returns; it adds the children to
\* pruned_clades and not the visited clade, calls no Assigner and leaves
\* clone_assign_dict and the accumulators as they were.
C18_ZeroCleanChildren ==
    [][(PassesGuards /\ CleanSet(Top.clade) = {}) =>
          /\ stack' = Popped
          /\ pruned_clades' = pruned_clades
                                  \cup {Name(c) : c \in Range(tree.kids[Top.clade])}
          /\ Name(Top.clade) \notin pruned_clades'
          /\ assigner_calls' = assigner_calls
          /\ UNCHANGED <<clone_assign_dict, gene_type_score_dict,
                         allele_assign_prob_dict>>]_vars

\* A visit with cells and two children, both with too few leaves, returned:
\* the children are pruned, the clade is not.
C18_Witness ==
    /\ last.kind = "no_clean_child"
    /\ last.cells # <<>>
    /\ Len(tree.kids[last.clade]) = 2
    /\ \A c \in Range(tree.kids[last.clade]) : Name(c) \in pruned_clades
    /\ Name(last.clade) \notin pruned_clades
    /\ \A c \in Range(last.cells) : clone_assign_dict[c] = Name(last.clade)

RECURSIVE PreorderOfList(_)
\* The clades below and at the clades of s, parents before children and
\* children in the tree's order.
PreorderOfList(s) ==
    IF s = <<>> THEN <<>>
    ELSE <<Head(s)>> \o PreorderOfList(tree.kids[Head(s)]) \o PreorderOfList(Tail(s))

\* The place of clade n in the depth-first order of the tree.
PreorderIndex(n) ==
    CHOOSE i \in 1..Len(PreorderOfList(<<1>>)) : PreorderOfList(<<1>>)[i] = n

IsPrefix(s, t) == Len(s) <= Len(t) /\ SubSeq(t, 1, Len(s)) = s

\* Every list of dict is kept as a prefix of its list in after.
Extends(dict, after) ==
    \A k \in DOMAIN dict : k \in DOMAIN after /\ IsPrefix(dict[k], after[k])

\* The clade whose visit produced the value v of row k (see Params).
CladeOfValue(v, k, base) == (v - base - k) \div 10

\* The values of every row come from visits in depth-first order.
InVisitOrder(dict, base) ==
    \A k \in DOMAIN dict :
        \A i \in 1..Len(dict[k]), j \in 1..Len(dict[k]) :
            i < j => PreorderIndex(CladeOfValue(dict[k][i], k, base))
                         < PreorderIndex(CladeOfValue(dict[k][j], k, base))

\* C19 Accumulators are append-only and in visit order: every step of a
\* traversal keeps, for every row, its list as a prefix of the new list, and
\* after every step that changes an accumulator the values of each row are
\* in the order of the visits that recorded them (depth-first, clean children
\* in roster order).
C19_AppendOnly ==
    [][status = "running" =>
          /\ Extends(gene_type_score_dict, gene_type_score_dict')
          /\ Extends(allele_assign_prob_dict, allele_assign_prob_dict')
          /\ gene_type_score_dict' # gene_type_score_dict =>
                 InVisitOrder(gene_type_score_dict', 0)
          /\ allele_assign_prob_dict' # allele_assign_prob_dict =>
                 InVisitOrder(allele_assign_prob_dict', 100)]_vars

\* A SNP has the probabilities of three visits: the root and its two
\* children, in that order.
C19_Witness ==
    \E k \in DOMAIN allele_assign_prob_dict :
        /\ Len(allele_assign_prob_dict[k]) = 3
        /\ CladeOfValue(allele_assign_prob_dict[k][1], k, 100) = 1
        /\ CladeOfValue(allele_assign_prob_dict[k][2], k, 100) = tree.kids[1][1]
        /\ CladeOfValue(allele_assign_prob_dict[k][3], k, 100) = tree.kids[1][2]

\* The clade n is a child of.
Parent(n) == CHOOSE a \in Nodes(tree) : n \in Range(tree.kids[a])

\* C20 Visit ordering: every visit is made by the one active call, the top
\* of the call stack; it comes later in the depth-first order of the tree
\* than the visit before it, so each clade is visited at most once and the
\* clades below one clean child before the next clean child; a clade other
\* than the root is visited while its parent, visited before, waits in a
\* bypass or in its loop over the clean children; the level of a visit is the
\* depth of its clade; a call is made on a clean child of the caller, the
\* loop taking them in roster order.
C20_VisitOrdering ==
    [][status = "running" =>
          /\ visits' # visits =>
                 LET v == visits'[Len(visits')]
                 IN  /\ visits' = Append(visits, v)
                     /\ v.clade = Top.clade /\ v.level = Top.level
                     /\ Top.pc = "enter"
                     /\ v.level = Depth(v.clade)
                     /\ visits # <<>> =>
                            PreorderIndex(visits[Len(visits)].clade)
                                < PreorderIndex(v.clade)
                     /\ v.clade # 1 =>
                            /\ Len(stack) >= 2
                            /\ stack[Len(stack) - 1].clade = Parent(v.clade)
                            /\ stack[Len(stack) - 1].pc \in {"bypass", "loop"}
                            /\ \E i \in 1..Len(visits) :
                                   visits[i].clade = Parent(v.clade)
          /\ Len(stack') > Len(stack) =>
                 /\ Len(stack') = Len(stack) + 1
                 /\ stack'[Len(stack')].pc = "enter"
                 /\ stack'[Len(stack)].pc \in {"bypass", "loop"}
                 /\ stack'[Len(stack')].clade \in Range(stack'[Len(stack)].clean)
                 /\ Top.pc = "loop" =>
                        /\ stack'[Len(stack')].clade = Top.clean[Top.i + 1]
                        /\ stack'[Len(stack)].i = Top.i + 1
          /\ \A i \in 1..(Len(stack') - 1) : stack'[i].pc # "enter"]_vars

\* A traversal is done that visited the first child of the root, a clade
\* below it, and then the second child of the root.
C20_Witness ==
    /\ status = "done"
    /\ \E i \in 1..Len(visits), j \in 1..Len(visits), k \in 1..Len(visits) :
           /\ i < j /\ j < k
           /\ visits[i].clade = tree.kids[1][1]
           /\ visits[j].clade \in Range(tree.kids[tree.kids[1][1]])
           /\ visits[k].clade = tree.kids[1][2]

\* C21 Visit-entry invariant: when a visit begins, every cell of its cell
\* list has the name of the visited clade in clone_assign_dict.
C21_VisitEntry ==
    Entering =>
        \A c \in Range(Top.cells) :
            c \in DOMAIN clone_assign_dict /\ clone_assign_dict[c] = Name(Top.clade)

\* A visit two levels below the root begins with a cell, called from the
\* loop of a visit that was itself reached by a bypass or a loop.
C21_Witness ==
    /\ Entering
    /\ Top.level = 2
    /\ Top.cells # <<>>
    /\ stack[Len(stack) - 1].pc = "loop"
    /\ \A c \in Range(Top.cells) : clone_assign_dict[c] = Name(Top.clade)

\* The clades visited in the traversal.
Visited == {visits[j].clade : j \in 1..Len(visits)}

\* C22 Frontier completeness: when the traversal is done, every visited
\* clade none of whose children was visited is in pruned_clades or has all
\* its children in pruned_clades.
C22_FrontierComplete ==
    status = "done" =>
        \A n \in Visited :
            Range(tree.kids[n]) \cap Visited = {} =>
                \/ Name(n) \in pruned_clades
                \/ \A c \in Range(tree.kids[n]) : Name(c) \in pruned_clades

\* A traversal is done in which one visit below the root stopped with its
\* children pruned and another was pruned itself.
C22_Witness ==
    /\ status = "done"
    /\ \E n \in Visited, m \in Visited :
           /\ n # 1 /\ m # 1
           /\ Range(tree.kids[n]) \cap Visited = {}
           /\ tree.kids[n] # <<>>
           /\ Name(n) \notin pruned_clades
           /\ \A c \in Range(tree.kids[n]) : Name(c) \in pruned_clades
           /\ Name(m) \in pruned_clades

\* A step in which the Assigner was called, whether it returned or failed.
AssignerCalled == assigner_calls' = assigner_calls + 1

\* C23 Assigner precondition (as claimed): the Assigner is called only at a
\* visit with level <= level_cutoff, at least min_cell_count_expr cells, two
\* or more clean children, and a usable track whose row count reaches its
\* own threshold.
C23_AssignerPrecondition ==
    [][AssignerCalled =>
          LET q == last'.profile
          IN  /\ Top.level <= level_cutoff
              /\ Len(Top.cells) >= min_cell_count_expr
              /\ Cardinality(CleanSet(Top.clade)) >= 2
              /\ \/ /\ has_total_copy_number_data(q)
                    /\ q.clone_cnv_df.rows >= min_gene_diff
                 \/ /\ has_allele_specific_data(q)
                    /\ q.hscn_input.rows >= min_snp_diff]_vars

\* C23 Assigner precondition (amended): the Assigner is called only at a
\* visit with level <= level_cutoff, at least min_cell_count_expr cells, two
\* or more clean children, a usable track, and a gene count that reaches
\* min_gene_diff or a SNP count that reaches min_snp_diff, the count of a
\* track that is not usable being 0.
C23_AssignerPreconditionByCount ==
    [][AssignerCalled =>
          LET q == last'.profile
              genes == IF has_total_copy_number_data(q) THEN q.clone_cnv_df.rows ELSE 0
              snps == IF has_allele_specific_data(q) THEN q.hscn_input.rows ELSE 0
          IN  /\ Top.level <= level_cutoff
              /\ Len(Top.cells) >= min_cell_count_expr
              /\ Cardinality(CleanSet(Top.clade)) >= 2
              /\ has_total_copy_number_data(q) \/ has_allele_specific_data(q)
              /\ genes >= min_gene_diff \/ snps >= min_snp_diff]_vars

\* The Assigner was called with the total-copy-number track only, with fewer
\* genes than min_gene_diff, min_snp_diff being 0.
C23_Witness ==
    /\ last.kind \in {"assigner", "failure"}
    /\ has_total_copy_number_data(last.profile)
    /\ ~ has_allele_specific_data(last.profile)
    /\ last.profile.clone_cnv_df.rows < min_gene_diff
    /\ min_snp_diff = 0
    /\ Len(last.cells) >= min_cell_count_expr
    /\ last.level <= level_cutoff

\* ------------------------------------------------------------ tree naming
\* Names an internal node of the tree handed to __init__ may carry.
GivenNames == {NoName, "node_0", "node_1", "cladeA"}

Internal(t) == {n \in Nodes(t) : ~ IsTerminal(t, n)}

\* The tree t under every choice of names for its internal nodes in which the
\* names that are given are pairwise distinct; the leaves keep their names.
Relabelled(t) ==
    {[t EXCEPT !.name = [n \in Nodes(t) |->
                            IF n \in Internal(t) THEN f[n] ELSE t.name[n]]] :
        f \in {h \in [Internal(t) -> GivenNames] :
                  \A m, n \in Internal(t) :
                      m # n /\ h[m] # NoName => h[m] # h[n]}}

GivenTrees == UNION {Relabelled(t) : t \in RawTrees}

\* __init__ after line 48: self.tree holds the tree as it was given (0 stands
\* for the self.count that does not exist yet).
InitNames ==
    \E raw \in GivenTrees, d \in CellInputs, th \in ThresholdsRepeat :
        /\ given = raw
        /\ tree = raw
        /\ count = 0
        /\ status = "new"
        /\ last = Step("init", NoFrame, NoProfile, NoResult)
        /\ InitFields(d, th, RowChoices, FALSE, 1)

\* Lines 49-50: the tree is ladderized and the counter set to 0.
LadderizeTree ==
    /\ status = "new"
    /\ tree' = Ladderize(tree)
    /\ count' = 0
    /\ status' = "ladderized"
    /\ last' = Step("ladderize", NoFrame, NoProfile, NoResult)
    /\ UNCHANGED <<given, expr_df, snv_df, min_cell_count_expr, min_cell_count_cnv,
                   min_gene_diff, min_snp_diff, level_cutoff, min_proceed_freq,
                   min_record_freq, infer_s_score, infer_b_allele, row_choices,
                   stubbed, run_limit, output, stack, runs, fresh, visits,
                   assigner_calls, collab, first, kept>>

\* The call add_tree_node_name(self.tree.clade) of line 52, and the same call
\* made once more on the object.
AddTreeNodeName ==
    /\ status \in {"ladderized", "named"}
    /\ LET r == add_tree_node_name(tree, 1, count)
       IN  tree' = r.tree /\ count' = r.count
    /\ status' = IF status = "ladderized" THEN "named" ELSE "renamed"
    /\ last' = Step("add_tree_node_name", NoFrame, NoProfile, NoResult)
    /\ UNCHANGED <<given, expr_df, snv_df, min_cell_count_expr, min_cell_count_cnv,
                   min_gene_diff, min_snp_diff, level_cutoff, min_proceed_freq,
                   min_record_freq, infer_s_score, infer_b_allele, row_choices,
                   stubbed, run_limit, output, stack, runs, fresh, visits,
                   assigner_calls, collab, first, kept>>

NextNames ==
    \/ LadderizeTree
    \/ AddTreeNodeName

SpecNames == InitNames /\ [][NextNames]_vars

RECURSIVE PreorderIn(_, _)
\* The clades of t at and below the clades of s in depth-first pre-order.
PreorderIn(t, s) ==
    IF s = <<>> THEN <<>>
    ELSE <<Head(s)>> \o PreorderIn(t, t.kids[Head(s)]) \o PreorderIn(t, Tail(s))

\* The internal nodes that came without a name.
Unnamed(g) == {n \in Internal(g) : g.name[n] = NoName}

\* The number of unnamed internal nodes the walk of t meets before n.
Rank(g, t, n) ==
    LET order == PreorderIn(t, <<1>>)
        at(m) == CHOOSE i \in 1..Len(order) : order[i] = m
    IN  Cardinality({m \in Unnamed(g) : at(m) < at(n)})

AllNamed(t) == \A n \in Internal(t) : t.name[n] # NoName

NamedByRank(g, t) ==
    \A n \in Unnamed(g) : t.name[n] = "node_" \o ToString(Rank(g, t, n))

NamesKept(g, t) ==
    \A n \in Nodes(t) \ Unnamed(g) : t.name[n] = g.name[n]

NamesDistinct(t) ==
    \A m, n \in Nodes(t) : m # n => t.name[m] # t.name[n]

\* C24: after add_tree_node_name has run from the root with the counter at 0,
\* every internal node has a name, each internal node that came unnamed is
\* "node_<k>" with k its pre-order rank among the unnamed internal nodes, the
\* leaves and the named internal nodes keep their names and all names of the
\* tree are pairwise distinct; running it again changes no name.
C24_TreeNaming ==
    [][/\ status' = "named" =>
            /\ AllNamed(tree')
            /\ NamedByRank(given, tree')
            /\ NamesKept(given, tree')
            /\ NamesDistinct(tree')
       /\ status' = "renamed" => tree'.name = tree.name]_vars


====
